---------------------------- MODULE Spec2Model ----------------------------
(***************************************************************************)
(* Model of the bulk image orchestrator of LangGraph-Agentic-Meme-Gen:     *)
(* services/openai_image_service.py (OpenAIImageService), the tools of     *)
(* tools/image_tools.py that wrap it and the workflow of agent.py.         *)
(*                                                                         *)
(* One batch is one call of the tool bulk_generate_images or               *)
(* bulk_edit_images.  The calling thread validates, resolves the session   *)
(* directory, builds the task tuples and submits them to a                 *)
(* ThreadPoolExecutor; the worker threads run _worker_generate_image or    *)
(* _worker_edit_image; the calling thread collects the futures in          *)
(* completion order, sorts and returns, and the tool builds the manifest.  *)
(* The tools generate_image and edit_image run the same generate_image /   *)
(* edit_image of the service once, on the calling thread, and so does a    *)
(* caller of these two methods of the service.  A task moves through the   *)
(* positions                                                               *)
(*   queued, running, calling, writing, saving, done, collected.           *)
(* Task indices are 0-based as in the code; TLA+ sequences are 1-based, so *)
(* position k of a Python tuple is position k+1 here.                      *)
(***************************************************************************)
EXTENDS Integers, Sequences, FiniteSets, TLC

VARIABLES
    max_workers,   \* self.max_workers of the service object
    pc,            \* position of the calling thread
    kind,          \* which tool is running: "generate" and "edit" are the batch
                   \* tools, "generate_image" and "edit_image" the single ones,
                   \* "svc_generate_image" and "svc_edit_image" the methods of
                   \* the service called on their own
    nprompts,      \* len(input_data.prompts) of the current call
    env,           \* per index: what the backend / filesystem / executor will do
    src,           \* per index: state of the task's source images (edit only)
    output_dir,    \* the caller-supplied directory, NoDir when not supplied
    session_dir,   \* the directory resolved by the service, NoDir before that
    tasks,         \* the list of task tuples built by the service
    st,            \* per submitted index: position of the task in the pool
    future,        \* per index: the outcome stored on the task's future
                   \* (a single call has no future: its entry stays pending)
    results,       \* the service's results list
    ret,           \* what the service call returned or raised, or the exception
                   \* with which the calling thread is leaving the batch
    manifest,      \* what the tool returned
    dirs,          \* directories that exist, the working directory aside
    files,         \* files that exist: path -> contents
    backendCalls,  \* indices for which a request reached the image backend
    arrival,       \* the indices of the records in the order they were appended
    clock,         \* datetime.now(), in seconds
    calls,         \* the tool calls made so far: directory resolved, whether the
                   \* caller supplied it, and the second of the call
    model,         \* the model identifier passed to the batch entry point
    requests,      \* per index: the request that reached the image backend
    handles,       \* the source-image files that are open
    response,      \* the content of the chat model's response to analyze_story
    agent,         \* the AgentState of the workflow
    active,        \* the nodes of the graph that run in the current step
    writes,        \* per node that has run in the current step: its update
    visited,       \* the nodes that have run since the workflow was invoked
    agent_pc,      \* position of generate_memes_from_story
    agent_ret      \* what generate_memes_from_story returned

vars == <<max_workers, pc, kind, nprompts, env, src, output_dir, session_dir,
          tasks, st, future, results, ret, manifest, dirs, files,
          backendCalls, arrival, clock, calls, model, requests, handles,
          response, agent, active, writes, visited, agent_pc, agent_ret>>

\* the variables of the workflow
agentVars == <<response, agent, active, writes, visited, agent_pc, agent_ret>>

---------------------------------------------------------------------------
(* Bounds of the model *)

\* largest batch of the exhaustive specification
MaxN == 2
\* batch size of the specification that exercises the pool cap
CapN == 11
\* tasks of a CapN batch whose backend call returns at all
MaxLive == 1
\* a requested pool size above the cap
BigRequest == 50
\* longest image_paths_list of a mismatched call is nprompts + MaxExtra
MaxExtra == 1
\* largest index whose file name is compared with the others
MaxIndex == 1000
\* number of batch calls in a behaviour of the specification of successive calls
MaxCalls == 2
\* batch sizes of the specification of successive calls
SeqSizes == {0, 1}
\* last second of the clock of the specification of successive calls
SeqClock == 1
\* largest batch of the specification with fairness
LiveN == 2
\* longest JSON array and largest number of paragraphs of a response
MaxItems == 10
\* largest number of prompts of the responses of the workflow specification
AgentN == 2

(* Program constants *)

\* the cap on the pool size
WorkerCap == 10
\* OpenAIImageService(max_workers=10): the default of the constructor
DefaultWorkers == 10
\* the number of meme prompts asked of the analysis
NinePrompts == 9
\* width of the zero padding of an index in a file name
PadWidth == 3

---------------------------------------------------------------------------
(* Values *)

None == "None"
DefaultModel == "gpt-image-1"
OtherModel == "dall-e-3"

NoDir == <<>>
NoPath == [dir |-> <<>>, file |-> <<>>]

CustomDir == <<"custom_dir">>
\* Path(".") and Path("./"): the current directory
DotDir == <<".">>

Digits == <<"0", "1", "2", "3", "4", "5", "6", "7", "8", "9">>

Min(a, b) == IF a <= b THEN a ELSE b

RECURSIVE DecimalDigits(_)
\* the decimal digits of a non-negative integer, most significant first
DecimalDigits(n) ==
    IF n < 10 THEN <<Digits[n + 1]>>
    ELSE DecimalDigits(n \div 10) \o <<Digits[(n % 10) + 1]>>

RECURSIVE ZeroFill(_, _)
ZeroFill(s, width) == IF Len(s) >= width THEN s ELSE ZeroFill(<<"0">> \o s, width)

\* f"{i:03d}"
Pad3(i) == ZeroFill(DecimalDigits(i), PadWidth)

\* Timestamp with the resolution of a minute
TimestampMinutes(t) == <<"t">> \o DecimalDigits(t \div 60)

\* datetime.now().strftime("%Y%m%d_%H%M%S") at second t
Timestamp(t) == <<"t">> \o DecimalDigits(t)

\* Path(f"generated_images/session_{timestamp}")
SessionDirName(t) == <<"generated_images", "session_">> \o Timestamp(t)

\* PathFor with a file name that does not depend on the index
PathForNoIndex(dir, prefix, i) ==
    [dir |-> dir, file |-> <<prefix>> \o <<".png">>]

\* str(session_dir / f"image_{i:03d}.png") and the edited_image_ variant; a
\* path in Path(".") is the bare file name
PathFor(dir, prefix, i) ==
    [dir |-> IF dir = DotDir THEN NoDir ELSE dir,
     file |-> <<prefix>> \o Pad3(i) \o <<".png">>]

\* session_dir.mkdir(parents=True, exist_ok=True): the directories that exist
\* afterwards because of it; generated_images is the parent of a timestamped
\* directory, and the current directory is there already
MkdirParents(dir) ==
    IF dir = DotDir THEN {}
    ELSE IF dir[1] = "generated_images" /\ Len(dir) > 1 THEN {<<"generated_images">>, dir}
    ELSE {dir}

GeneratePrefix == "image_"
EditPrefix == "edited_image_"

\* os.path.dirname(output_path); str(path).rsplit("/", 1)[0]
DirName(path) == path.dir

---------------------------------------------------------------------------
(* The environment of one task *)

\* what happens to the task below the worker:
\*   ok              the backend returns an image and the file is written
\*   backend_error   client.images.generate / edit raises an Exception
\*   backend_exit    client.images.generate / edit raises an exception that is
\*                   no Exception (SystemExit, KeyboardInterrupt)
\*   open_error      makedirs succeeds and open(output_path, "wb") raises
\*   write_error     the output file is opened and f.write, or the flush at
\*                   the close of the file, raises before the last byte
\*                   has reached the file
\*   hang            the backend call never returns
\*   executor_error  the future ends with an Exception the worker did not
\*                   convert (raised outside the worker's try block)
\*   executor_exit   the same with an exception that is no Exception
EnvOutcomes == {"ok", "backend_error", "backend_exit", "open_error", "write_error",
                "hang", "executor_error", "executor_exit"}

\* the source images of an edit task:
\*   present     every path exists and opens
\*   empty       the list of paths is empty
\*   unreadable  a path exists and open() raises
\*   missing     a path does not exist
\*   na          a generation task has no source images
SrcStates == {"present", "empty", "unreadable", "second_unreadable", "missing"}

BackendMessage == "rate limited"
WriteMessage == "write failed"
OutputMessage == "cannot open output file"
MakedirsMessage == "No such file or directory: ''"
OpenMessage == "cannot open source image"
NameErrorMessage == "name 'time' is not defined"
ExecutorMessage == "worker crashed"
MismatchMessage == "Number of prompts must match number of image path lists"
PoolMessage == "max_workers must be greater than 0"
NotFoundMessage == "Source image not found"

\* the outcome of a call that returned, of one that raised the Exception msg,
\* and of one that raised an exception that is no Exception
Returned == [raised |-> FALSE, base |-> FALSE, msg |-> None]
Raised(msg) == [raised |-> TRUE, base |-> FALSE, msg |-> msg]
Exited(msg) == [raised |-> TRUE, base |-> TRUE, msg |-> msg]

\* the image bytes the backend returns for a prompt
ImageBytes(prompt) == <<"png", prompt>>

\* a write that leaves the file system as it was
WrittenNothing(fs, path, bytes) == fs

\* f.write(image_bytes), and the close at the end of the with block
Written(fs, path, bytes) == (path :> bytes) @@ fs

\* What a write of bytes that fails can leave in the file: nothing, or the
\* first bytes.
Partial(bytes) == {SubSeq(bytes, 1, k) : k \in 0..(Len(bytes) - 1)}

\* open(output_path, "wb"): the file is created empty, or emptied
Truncated(fs, path) == (path :> <<>>) @@ fs

\* AfterCall of a function that opens its output file before the request: a
\* failed call leaves an empty file at the path
AfterCallTruncated(fs, path, outcome) ==
    IF outcome = "backend_error" THEN (path :> <<>>) @@ fs ELSE fs

\* generate_image lines 46-52 / edit_image lines 89-96: the request and the
\* decoding of its answer come before makedirs and open, so the file system
\* is as it was when the call has ended, whatever its outcome
AfterCall(fs, path, outcome) == fs

---------------------------------------------------------------------------
(* OpenAIImageService *)

\* PoolSize without the cap: the requested size is used as it is
PoolSizeUncapped(requested) == requested

\* __init__: self.max_workers = min(max_workers, 10)
PoolSize(requested) == Min(requested, WorkerCap)

\* OkResult that leaves the path out of the record
OkResultNoPath(index, output_path) ==
    [index |-> index, success |-> TRUE, output_path |-> NoPath, error |-> None]

OkResult(index, output_path) ==
    [index |-> index, success |-> TRUE, output_path |-> output_path, error |-> None]

FailResult(index, msg) ==
    [index |-> index, success |-> FALSE, output_path |-> NoPath, error |-> msg]

\* How a call of a worker function ends, as the executor stores it on the
\* future: a returned record, or an exception.
Pending == [state |-> "pending", value |-> FailResult(0, None), exc |-> None, base |-> FALSE]
FutureValue(r) == [state |-> "value", value |-> r, exc |-> None, base |-> FALSE]
FutureException(msg) ==
    [state |-> "exception", value |-> FailResult(0, None), exc |-> msg, base |-> FALSE]
\* the future of a work item that raised an exception that is no Exception:
\* the executor stores every BaseException on the future
FutureExit(msg) ==
    [state |-> "exception", value |-> FailResult(0, None), exc |-> msg, base |-> TRUE]

\* _worker_generate_image: args = (prompt, model, index, output_path); call is
\* how self.generate_image(...) ended.  except Exception converts the errors;
\* an exception that is no Exception leaves the worker function.
worker_generate_image(args, call) ==
    LET index == args[3]
        output_path == args[4]
    IN  IF ~call.raised THEN FutureValue(OkResult(index, output_path))
        ELSE IF call.base THEN FutureExit(call.msg)
        ELSE FutureValue(FailResult(index, call.msg))

\* _worker_edit_image: args = (prompt, image_paths, index, output_path); call
\* is how self.edit_image(...) ended.  except Exception converts the errors;
\* an exception that is no Exception leaves the worker function.
worker_edit_image(args, call) ==
    LET index == args[3]
        output_path == args[4]
    IN  IF ~call.raised THEN FutureValue(OkResult(index, output_path))
        ELSE IF call.base THEN FutureExit(call.msg)
        ELSE FutureValue(FailResult(index, call.msg))

\* the paths of a source-image list in state s, each readable, unreadable
\* (it exists and cannot be opened) or missing
SourcePaths(s) ==
    IF s = "present" THEN <<"readable">>
    ELSE IF s = "unreadable" THEN <<"unreadable">>
    ELSE IF s = "missing" THEN <<"missing">>
    ELSE IF s = "second_unreadable" THEN <<"readable", "unreadable">>
    ELSE <<>>

\* OpenAll that skips the paths it cannot open
OpenAllSkipping(paths) ==
    [opened |-> {p \in 1..Len(paths) : paths[p] = "readable"}, raised |-> FALSE]

\* images = [open(path, "rb") for path in image_paths]: the files are opened
\* in order up to the first path that cannot be opened, where open() raises
OpenAll(paths) ==
    LET bad == {p \in 1..Len(paths) : paths[p] # "readable"}
        first == CHOOSE p \in bad : \A q \in bad : p <= q
    IN  IF bad = {} THEN [opened |-> 1..Len(paths), raised |-> FALSE]
        ELSE [opened |-> 1..(first - 1), raised |-> TRUE]

\* generate_image and edit_image of the service, called on their own
ServiceKinds == {"svc_generate_image", "svc_edit_image"}

\* the calls that generate and the calls that edit
GenerateKinds == {"generate", "generate_image", "svc_generate_image"}
EditKinds == {"edit", "edit_image", "svc_edit_image"}

\* what the function called for a task of the tool k opens before its request
Opened(k, args) ==
    IF k \in GenerateKinds THEN [opened |-> {}, raised |-> FALSE]
    ELSE OpenAll(SourcePaths(args[2]))

\* the open files of task i of call c
HandlesOf(c, i, opened) == {[call |-> c, task |-> i, path |-> p] : p \in opened}

\* finally: for img in images: img.close()
Closed(hs, c, i) == {h \in hs : ~(h.call = c /\ h.task = i)}

\* Abandoned that leaves the files of the unfinished list open
AbandonedOpen(hs, c, i) == hs

\* An open() of line 86 raises: the list under construction is dropped with
\* the frame, and the files it holds, referenced by nothing else, are closed
\* when they are deallocated (reference counting), before the caller handles
\* the exception.
Abandoned(hs, c, i) == {h \in hs : ~(h.call = c /\ h.task = i)}

\* the request of generate_image: client.images.generate(model=model, ...)
generate_image_request(mdl) == [op |-> "generate", model |-> mdl]

\* the request of edit_image: client.images.edit(model=model, ...)
edit_image_request(mdl) == [op |-> "edit", model |-> mdl]

\* The request made for a task of the call k.  _worker_generate_image, the
\* single tools and a caller of the service pass their model on;
\* _worker_edit_image calls edit_image without one, which then uses its
\* default.
Request(k, args) ==
    IF k \in GenerateKinds THEN generate_image_request(args[2])
    ELSE IF k = "edit" THEN edit_image_request(DefaultModel)
    ELSE edit_image_request(args[5])

\* the worker function submitted by the batch of kind k
Worker(k, args, call) ==
    IF k = "generate" THEN worker_generate_image(args, call)
    ELSE worker_edit_image(args, call)

\* the k-th prompt of a call
Prompt(i) == <<"prompt", i>>

\* the task tuples of bulk_generate_images
GenerateTasks(n, mdl, dir) ==
    [k \in 1..n |-> <<Prompt(k - 1), mdl, k - 1, PathFor(dir, GeneratePrefix, k - 1)>>]

\* the task tuples of bulk_edit_images; zip() stops at the shorter list
EditTasks(n, m, srcs, dir) ==
    [k \in 1..Min(n, m) |-> <<Prompt(k - 1), srcs[k - 1], k - 1, PathFor(dir, EditPrefix, k - 1)>>]

\* an append that loses an update: it stores r in the last slot written
AppendResultLost(rs, r) ==
    IF rs = <<>> THEN <<r>> ELSE [rs EXCEPT ![Len(rs)] = r]

\* results.append(result)
AppendResult(rs, r) == Append(rs, r)

\* future.result() raises an exception that except Exception does not catch
Propagates(fut) == fut.state = "exception" /\ fut.base

\* the body of the as_completed loop for one future: future.result(), or the
\* record built by the except Exception branch from future_to_task[future]
CollectedRecord(fut, task) ==
    IF fut.state = "value" THEN fut.value
    ELSE LET index == task[3] IN FailResult(index, fut.exc)

RECURSIVE InsertByIndex(_, _)
\* insert r after the records whose index is not larger (list.sort is stable)
InsertByIndex(sorted, r) ==
    IF sorted = <<>> THEN <<r>>
    ELSE IF Head(sorted).index <= r.index
         THEN <<Head(sorted)>> \o InsertByIndex(Tail(sorted), r)
         ELSE <<r>> \o sorted

RECURSIVE SortByIndex(_)
\* results.sort(key=lambda x: x["index"])
SortByIndex(rs) ==
    IF rs = <<>> THEN <<>>
    ELSE InsertByIndex(SortByIndex(SubSeq(rs, 1, Len(rs) - 1)), rs[Len(rs)])

---------------------------------------------------------------------------
(* tools/image_tools.py *)

RECURSIVE AllPaths(_)
\* SuccessfulPaths without its filter
AllPaths(rs) ==
    IF rs = <<>> THEN <<>>
    ELSE <<Head(rs).output_path>> \o AllPaths(Tail(rs))

RECURSIVE SuccessfulPaths(_)
\* [result["output_path"] for result in results if result["success"]]
SuccessfulPaths(rs) ==
    IF rs = <<>> THEN <<>>
    ELSE IF Head(rs).success THEN <<Head(rs).output_path>> \o SuccessfulPaths(Tail(rs))
         ELSE SuccessfulPaths(Tail(rs))

\* any() in place of all()
AnySuccess(rs) == \E k \in 1..Len(rs) : rs[k].success

\* all(result["success"] for result in results)
AllSuccess(rs) == \A k \in 1..Len(rs) : rs[k].success

\* the "session_dir" expression of the manifest
ReportedSessionDir(outdir, rs) ==
    IF outdir # NoDir THEN outdir
    ELSE IF rs # <<>> /\ rs[1].success THEN DirName(rs[1].output_path)
         ELSE NoDir

\* the dictionary returned after the service call
BuildManifest(rs, n, outdir) ==
    [success |-> AllSuccess(rs),
     results |-> rs,
     output_paths |-> SuccessfulPaths(rs),
     session_dir |-> ReportedSessionDir(outdir, rs),
     generated |-> Len(SuccessfulPaths(rs)),
     requested |-> n]

\* the dictionary returned when a source image does not exist
NotFoundManifest == [success |-> FALSE, error |-> NotFoundMessage]

\* the dictionary the tools generate_image and edit_image return
OneManifest(output_path) == [success |-> TRUE, output_path |-> output_path]

\* the arguments of the call of generate_image by the tool generate_image
GenerateOneTask(mdl, output_path) == <<<<"prompt", 0>>, mdl, 0, output_path>>

\* the arguments of the call of edit_image by the tool edit_image
EditOneTask(srcs, mdl, output_path) == <<<<"prompt", 0>>, srcs, 0, output_path, mdl>>

NoManifest == [success |-> FALSE, error |-> None]
NoRet == [state |-> "none", value |-> <<>>, exc |-> None, base |-> FALSE]

\* what generate_image / edit_image returns to its caller: the output path,
\* or the image bytes when it was given no path
ReturnedValue(v) == [state |-> "value", value |-> v, exc |-> None, base |-> FALSE]

\* the exception msg that leaves a call
RaisedRet(msg, base) == [state |-> "raised", value |-> <<>>, exc |-> msg, base |-> base]

---------------------------------------------------------------------------
(* The workflow: src/agent.py *)

\* The content of the chat model's response, as a sequence of tokens:
\*   "[q"   the characters [{" (an array that opens on an object)
\*   "[n"   the characters [{ and a newline
\*   "["    any other opening bracket
\*   "]"    a closing bracket
\*   "obj"  a JSON object, "num" a JSON value that is not an object
\*   "para" a paragraph of more than 20 characters, "short" a shorter one
Opens == {"[q", "[n", "["}

\* str.find: the 0-based position of the first token t, -1 when there is none
Find(toks, t) ==
    LET at == {k \in 1..Len(toks) : toks[k] = t}
    IN  IF at = {} THEN 0 - 1 ELSE (CHOOSE k \in at : \A l \in at : k <= l) - 1

\* str.rfind: the 0-based position of the last token t, -1 when there is none
RFind(toks, t) ==
    LET at == {k \in 1..Len(toks) : toks[k] = t}
    IN  IF at = {} THEN 0 - 1 ELSE (CHOOSE k \in at : \A l \in at : k >= l) - 1

\* start_idx: find('[{"'), then find('[{\n'), then find('[')
StartIdx(toks) ==
    IF Find(toks, "[q") # 0 - 1 THEN Find(toks, "[q")
    ELSE IF Find(toks, "[n") # 0 - 1 THEN Find(toks, "[n")
    ELSE Find(toks, "[")

\* json.loads of response_content[start_idx:end_idx + 1]: the items of the
\* array, or a JSONDecodeError when the slice is no JSON array
JsonLoads(slice) ==
    LET inner == SubSeq(slice, 2, Len(slice) - 1)
    IN  IF /\ Len(slice) >= 2
           /\ slice[1] \in Opens
           /\ slice[Len(slice)] = "]"
           /\ \A k \in 1..Len(inner) : inner[k] \in {"obj", "num"}
        THEN [raised |-> FALSE, data |-> inner]
        ELSE [raised |-> TRUE, data |-> <<>>]

\* the loop over meme_data: meme.get raises on an item that is no object
PromptsOfItems(data) ==
    IF \E k \in 1..Len(data) : data[k] # "obj"
    THEN [raised |-> TRUE, prompts |-> <<>>]
    ELSE [raised |-> FALSE, prompts |-> [k \in 1..Len(data) |-> <<"meme", k>>]]

\* the first at most NinePrompts parts of more than 20 characters
RECURSIVE Substantive(_, _)
Substantive(parts, acc) ==
    IF parts = <<>> \/ Len(acc) >= NinePrompts THEN acc
    ELSE Substantive(Tail(parts),
                     IF Head(parts) = "para" THEN Append(acc, <<"part", Len(acc) + 1>>) ELSE acc)

\* while len(meme_prompts) < 9: append "Generic meme scene {len + 1}"
RECURSIVE PadPrompts(_)
PadPrompts(ps) ==
    IF Len(ps) >= NinePrompts THEN ps
    ELSE PadPrompts(Append(ps, <<"generic", Len(ps) + 1>>))

\* the try block of analyze_story: the prompts, or the exception caught
ExtractPrompts(toks) ==
    LET start_idx == StartIdx(toks)
        end_idx == RFind(toks, "]")
    IN  IF start_idx >= 0 /\ end_idx > start_idx
        THEN LET loaded == JsonLoads(SubSeq(toks, start_idx + 1, end_idx + 1))
                 made == PromptsOfItems(loaded.data)
             IN  IF loaded.raised \/ made.raised THEN [raised |-> TRUE, prompts |-> <<>>]
                 ELSE [raised |-> FALSE, prompts |-> made.prompts]
        ELSE [raised |-> FALSE, prompts |-> PadPrompts(Substantive(toks, <<>>))]

\* the messages of the state
DictMessage(role) == [type |-> role, name |-> None, json |-> FALSE, content |-> NoManifest]
AIToolCall == [type |-> "ai", name |-> None, json |-> FALSE, content |-> NoManifest]
ToolName == "bulk_generate_images"

\* the ToolMessage of the tool node: the dictionary the tool returned as JSON
ToolMessage(result) == [type |-> "tool", name |-> ToolName, json |-> TRUE, content |-> result]

\* the ToolMessage of a tool call that raised: the text of the error
ToolErrorMessage == [type |-> "tool", name |-> ToolName, json |-> FALSE, content |-> NoManifest]

ParseError == "Failed to parse meme prompts from model response"
NoPromptsError == "No meme prompts were generated from the story analysis."
NoResponseError == "No response received from image generation tool"
GenerateError == "Failed to generate images: Unknown error"
NotFoundError == "Failed to generate images: Source image not found"
ToolParseError == "Failed to parse tool response"
NotAnAIMessage == "Last message is not an AIMessage"
InvalidUpdate == "Can receive only one value per step"

\* the metadata before the analysis: the keys set later are absent
NoMetadata ==
    [analysis_complete |-> FALSE, num_prompts |-> 0 - 1, session_dir |-> NoDir,
     images_generated |-> 0 - 1, completed |-> FALSE, error_time |-> FALSE]

\* create_initial_state(story)
create_initial_state ==
    [messages |-> <<DictMessage("system")>>,
     meme_prompts |-> <<>>,
     image_paths |-> <<>>,
     metadata |-> NoMetadata,
     status |-> "in_progress",
     error |-> None]

\* analyze_story
analyze_story(state, toks) ==
    LET got == ExtractPrompts(toks)
    IN  IF got.raised
        THEN [state EXCEPT !.status = "error", !.error = ParseError]
        ELSE [state EXCEPT
                !.messages = state.messages \o <<DictMessage("user"), DictMessage("assistant")>>,
                !.meme_prompts = got.prompts,
                !.metadata = [state.metadata EXCEPT !.analysis_complete = TRUE,
                                                    !.num_prompts = Len(got.prompts)]]

\* the update generate_meme_images returns: the key "__end__" is no channel
\* of the state, so the update of an empty list of prompts writes nothing
generate_meme_images(state) ==
    IF state.meme_prompts = <<>> THEN <<>>
    ELSE [state EXCEPT !.messages = state.messages \o <<AIToolCall>>]

\* tool_messages of process_image_results_mapping
ToolMessages(msgs) == SelectSeq(msgs, LAMBDA m : m.type = "tool" /\ m.name = ToolName)

\* process_image_results that takes the paths of the images that succeeded
\* whatever the manifest's success
process_image_results_partial(state, tool_messages) ==
    IF tool_messages = <<>> THEN [state EXCEPT !.status = "error", !.error = NoResponseError]
    ELSE IF ~tool_messages[1].json
    THEN [state EXCEPT !.status = "error", !.error = ToolParseError]
    ELSE IF "output_paths" \notin DOMAIN tool_messages[1].content
    THEN [state EXCEPT !.status = "error", !.error = NotFoundError]
    ELSE LET result == tool_messages[1].content
         IN  [state EXCEPT
                !.image_paths = result.output_paths,
                !.metadata = [state.metadata EXCEPT !.session_dir = result.session_dir,
                                                    !.images_generated = Len(result.output_paths),
                                                    !.completed = TRUE],
                !.status = "complete"]

\* process_image_results(state, tool_messages)
process_image_results(state, tool_messages) ==
    IF tool_messages = <<>> THEN [state EXCEPT !.status = "error", !.error = NoResponseError]
    ELSE IF ~tool_messages[1].json
    THEN [state EXCEPT !.status = "error", !.error = ToolParseError]
    ELSE LET result == tool_messages[1].content
         IN  IF ~result.success
             THEN [state EXCEPT
                     !.status = "error",
                     !.error = IF "error" \in DOMAIN result THEN NotFoundError ELSE GenerateError]
             ELSE [state EXCEPT
                     !.image_paths = result.output_paths,
                     !.metadata = [state.metadata EXCEPT !.session_dir = result.session_dir,
                                                         !.images_generated = Len(result.output_paths),
                                                         !.completed = TRUE],
                     !.status = "complete"]

\* handle_error
handle_error(state) ==
    [state EXCEPT !.status = "error", !.metadata = [state.metadata EXCEPT !.error_time = TRUE]]

\* the state a node's branch function reads: the state with the node's own
\* update applied
Updated(state, update) ==
    [f \in DOMAIN state |-> IF f \in DOMAIN update THEN update[f] ELSE state[f]]

\* The nodes that follow node n: add_edge adds its target always, and
\* add_conditional_edges adds the target its function chooses.
Successors(n, state) ==
    IF n = "analyze_story"
    THEN {"generate_meme_images"}
         \cup {IF state.error # None THEN "handle_error" ELSE "generate_meme_images"}
    ELSE IF n = "generate_meme_images" THEN {"image_tools"}
    ELSE IF n = "image_tools" THEN {"process_image_results"}
    ELSE IF n = "process_image_results"
    THEN IF state.error # None THEN {"handle_error"} ELSE {}
    ELSE {}

\* the dictionary generate_memes_from_story returns
Result(state) ==
    [success |-> state.status = "complete",
     error |-> state.error,
     image_paths |-> state.image_paths,
     session_dir |-> state.metadata.session_dir,
     meme_prompts |-> state.meme_prompts,
     num_images |-> Len(state.image_paths)]

NoResult == [success |-> FALSE, error |-> None, image_paths |-> <<>>,
             session_dir |-> NoDir, meme_prompts |-> <<>>, num_images |-> 0]

---------------------------------------------------------------------------
(* State *)

\* the indices of the submitted tasks
Indices == DOMAIN st

\* tasks that have started executing and have not completed
RunningIn(status) ==
    {i \in DOMAIN status : status[i] \in {"running", "calling", "writing", "saving"}}
Running == RunningIn(st)

\* SlotFree of a pool that runs one task at a time whatever its size
SlotFreeSerial(status, workers) == RunningIn(status) = {}

\* SlotFree of a pool whose workers take one work item each and no more
SlotFreeNoReuse(status, workers) ==
    Cardinality({i \in DOMAIN status : status[i] # "queued"}) < workers

\* ThreadPoolExecutor(max_workers=workers): a worker thread is idle, or fewer
\* than `workers` threads exist
SlotFree(status, workers) == Cardinality(RunningIn(status)) < workers

\* LoopDone that ends the loop at the first future yielded
LoopDoneFirst(status) ==
    DOMAIN status = {} \/ \E i \in DOMAIN status : status[i] = "collected"

\* as_completed(future_to_task) is exhausted: every future has been yielded
LoopDone(status) == \A i \in DOMAIN status : status[i] = "collected"

\* the pool sizes a service object can be constructed with
RequestedWorkers == {0, 1, WorkerCap, BigRequest}

Init ==
    /\ max_workers \in {PoolSize(r) : r \in RequestedWorkers}
    /\ pc = "idle"
    /\ kind = "none"
    /\ nprompts = 0
    /\ env = <<>>
    /\ src = <<>>
    /\ output_dir = NoDir
    /\ session_dir = NoDir
    /\ tasks = <<>>
    /\ st = <<>>
    /\ future = <<>>
    /\ results = <<>>
    /\ ret = NoRet
    /\ manifest = NoManifest
    /\ dirs = {}
    /\ files = <<>>
    /\ backendCalls = {}
    /\ arrival = <<>>
    /\ clock = 0
    /\ calls = <<>>
    /\ model = DefaultModel
    /\ requests = <<>>
    /\ handles = {}
    /\ response = <<>>
    /\ agent = create_initial_state
    /\ active = {}
    /\ writes = <<>>
    /\ visited = {}
    /\ agent_pc = "idle"
    /\ agent_ret = NoResult

---------------------------------------------------------------------------
(* The calling thread *)

\* bulk_edit_images (tool), lines 173-180: some path of some list is missing
SourceMissing(m, s) == \E i \in 0..(m - 1) : s[i] = "missing"

\* LengthMismatch with the check left out
NoLengthCheck(k, n, m) == FALSE

\* bulk_edit_images (service), lines 251-252
LengthMismatch(k, n, m) == k = "edit" /\ n # m

\* ResolveSessionDir that allocates a directory whatever the caller supplies
ResolveSessionDirFresh(outdir, now) == SessionDirName(now)

\* session_dir = output_dir if output_dir else self._generate_session_directory()
ResolveSessionDir(outdir, now) == IF outdir # NoDir THEN outdir ELSE SessionDirName(now)

\* what is remembered of a call: the directory it resolved (NoDir when it
\* failed before), whether the caller supplied one, and its second
CallRecord(sd, outdir, now) == [dir |-> sd, supplied |-> outdir # NoDir, at |-> now]

\* One call of the tool bulk_generate_images (k = "generate") or
\* bulk_edit_images (k = "edit") with n prompts, m source-image lists whose
\* states are s, the directory outdir, on a backend that behaves as e, at
\* second now: everything the calling thread does up to the construction of
\* the executor.
ToolCall(k, n, m, mdl, outdir, e, s, now) ==
    /\ pc = "idle"
    /\ kind' = k
    /\ model' = mdl
    /\ nprompts' = n
    /\ output_dir' = outdir
    /\ clock' = now
    /\ env' = e
    /\ src' = s
    /\ UNCHANGED <<max_workers, results, files, backendCalls, arrival, requests, handles>>
    /\ IF k = "edit" /\ SourceMissing(m, s)
       THEN \* the tool returns its error dictionary; the service is not called
            /\ manifest' = NotFoundManifest
            /\ pc' = "returned"
            /\ calls' = Append(calls, CallRecord(NoDir, outdir, now))
            /\ UNCHANGED <<session_dir, tasks, st, future, ret, dirs>>
       ELSE IF LengthMismatch(k, n, m)
       THEN \* raise ValueError, before the session directory is resolved
            /\ ret' = RaisedRet(MismatchMessage, FALSE)
            /\ pc' = "raised"
            /\ calls' = Append(calls, CallRecord(NoDir, outdir, now))
            /\ UNCHANGED <<session_dir, tasks, st, future, manifest, dirs>>
       ELSE LET sd == ResolveSessionDir(outdir, now)
                ts == IF k = "generate" THEN GenerateTasks(n, mdl, sd)
                      ELSE EditTasks(n, m, s, sd)
            IN  /\ session_dir' = sd
                /\ calls' = Append(calls, CallRecord(sd, outdir, now))
                /\ dirs' = dirs \cup MkdirParents(sd)
                /\ tasks' = ts
                /\ manifest' = manifest
                /\ IF max_workers <= 0
                   THEN \* ThreadPoolExecutor(max_workers=...) raises ValueError
                        /\ ret' = RaisedRet(PoolMessage, FALSE)
                        /\ pc' = "raised"
                        /\ UNCHANGED <<st, future>>
                   ELSE \* the comprehension of future_to_task begins; over an
                        \* empty list it ends at once
                        /\ st' = <<>>
                        /\ future' = <<>>
                        /\ pc' = IF Len(ts) = 0 THEN "collecting" ELSE "submitting"
                        /\ ret' = ret

\* The tool generate_image (k = "generate_image") or edit_image
\* (k = "edit_image") is called with the model mdl and the output path outpath
\* (NoPath when the caller gives none), for source images in state s, on a
\* backend that behaves as e, at second now: everything up to the call of the
\* service, which runs on the calling thread.
ToolCallOne(k, mdl, outpath, e, s, now) ==
    /\ pc = "idle"
    /\ kind' = k
    /\ model' = mdl
    /\ nprompts' = 1
    /\ output_dir' = NoDir
    /\ clock' = now
    /\ env' = (0 :> e)
    /\ src' = (0 :> s)
    /\ calls' = Append(calls, CallRecord(NoDir, NoDir, now))
    /\ UNCHANGED <<max_workers, session_dir, results, files, backendCalls, arrival,
                   requests, handles>>
    /\ IF outpath = NoPath
       THEN \* lines 69-71 / 99-101: makedirs, then time.time() with no import
            \* of time
            /\ dirs' = dirs \cup {<<"generated_images">>}
            /\ ret' = RaisedRet(NameErrorMessage, FALSE)
            /\ pc' = "raised"
            /\ UNCHANGED <<tasks, st, future, manifest>>
       ELSE IF k = "edit_image" /\ s = "missing"
       THEN \* lines 104-109: the tool returns its error dictionary
            /\ manifest' = NotFoundManifest
            /\ pc' = "returned"
            /\ UNCHANGED <<tasks, st, future, ret, dirs>>
       ELSE /\ tasks' = <<IF k = "generate_image" THEN GenerateOneTask(mdl, outpath)
                          ELSE EditOneTask(s, mdl, outpath)>>
            /\ st' = (0 :> "running")
            /\ future' = (0 :> Pending)
            /\ pc' = "single"
            /\ UNCHANGED <<ret, manifest, dirs>>

\* generate_image (k = "svc_generate_image") or edit_image
\* (k = "svc_edit_image") of the service is called on its own with the model
\* mdl and the output path outpath (NoPath when the caller gives none, the
\* default), for source images in state s, on a backend that behaves as e, at
\* second now.
ServiceCall(k, mdl, outpath, e, s, now) ==
    /\ pc = "idle"
    /\ kind' = k
    /\ model' = mdl
    /\ nprompts' = 1
    /\ output_dir' = NoDir
    /\ clock' = now
    /\ env' = (0 :> e)
    /\ src' = (0 :> s)
    /\ calls' = Append(calls, CallRecord(NoDir, NoDir, now))
    /\ tasks' = <<IF k = "svc_generate_image" THEN GenerateOneTask(mdl, outpath)
                  ELSE EditOneTask(s, mdl, outpath)>>
    /\ st' = (0 :> "running")
    /\ future' = (0 :> Pending)
    /\ pc' = "single"
    /\ UNCHANGED <<max_workers, session_dir, results, ret, manifest, dirs, files,
                   backendCalls, arrival, requests, handles>>

\* the worker threads of the pool run: the calling thread is submitting, is
\* in the loop, or is leaving the with block, where it waits for them
PoolRuns == pc \in {"submitting", "collecting", "unwinding"}

\* generate_image or edit_image is being executed
Executing == pc \in {"submitting", "collecting", "unwinding", "single"}

\* executor.submit(...) of line 212 / 270 for the next task of the list: the
\* work item is queued with a pending future, and the worker threads may take
\* it while the calling thread submits the tasks after it; after the last
\* task the calling thread enters the as_completed loop.
Submit ==
    /\ pc = "submitting"
    /\ LET i == Cardinality(DOMAIN st)
       IN  /\ st' = (i :> "queued") @@ st
           /\ future' = (i :> Pending) @@ future
           /\ pc' = IF i + 1 = Len(tasks) THEN "collecting" ELSE "submitting"
    /\ UNCHANGED <<max_workers, kind, nprompts, env, src, output_dir, session_dir,
                   tasks, results, ret, manifest, dirs, files, backendCalls, arrival,
                   clock, calls, model, requests, handles>>
    /\ UNCHANGED agentVars

\* the source-image files of task i of the running call that are open
OpenHandles(i) == {h \in handles : h.call = Len(calls) /\ h.task = i}

\* the paths of task i that the list of line 86 will hold and does not hold yet
ToOpen(i) == Opened(kind, tasks[i + 1]).opened \ {h.path : h \in OpenHandles(i)}

\* The call of generate_image / edit_image for task i ends as `call`.  In a
\* batch the worker function stores its record, or its exception, on the
\* future; in a single call the exception leaves the call; a call of a
\* single tool that returned is followed by the return of the tool's
\* dictionary, and a call of the service on its own returns the output path,
\* or the image bytes when it was given no path.
Ends(i, call) ==
    IF kind \in {"generate", "edit"}
    THEN /\ future' = [future EXCEPT ![i] = Worker(kind, tasks[i + 1], call)]
         /\ UNCHANGED <<pc, ret, manifest>>
    ELSE IF call.raised
    THEN /\ ret' = RaisedRet(call.msg, call.base)
         /\ pc' = "raised"
         /\ UNCHANGED <<future, manifest>>
    ELSE IF kind \in ServiceKinds
    THEN /\ ret' = ReturnedValue(IF tasks[i + 1][4] = NoPath
                                 THEN ImageBytes(tasks[i + 1][1])
                                 ELSE tasks[i + 1][4])
         /\ pc' = "returned"
         /\ UNCHANGED <<future, manifest>>
    ELSE /\ manifest' = OneManifest(tasks[i + 1][4])
         /\ pc' = "returned"
         /\ UNCHANGED <<future, ret>>

\* A worker thread takes the next work item from the executor's queue and
\* calls the worker function.
Start(i) ==
    /\ PoolRuns
    /\ i \in Indices
    /\ st[i] = "queued"
    /\ \A j \in Indices : j < i => st[j] # "queued"
    /\ SlotFree(st, max_workers)
    /\ IF env[i] \in {"executor_error", "executor_exit"}
       THEN /\ future' = [future EXCEPT ![i] =
                            IF env[i] = "executor_error" THEN FutureException(ExecutorMessage)
                            ELSE FutureExit(ExecutorMessage)]
            /\ st' = [st EXCEPT ![i] = "done"]
       ELSE /\ st' = [st EXCEPT ![i] = "running"]
            /\ UNCHANGED future
    /\ UNCHANGED <<max_workers, pc, kind, nprompts, env, src, output_dir, session_dir,
                   tasks, results, ret, manifest, dirs, files, backendCalls, arrival,
                   clock, calls, model, requests, handles>>
    /\ UNCHANGED agentVars

\* edit_image line 86: the next open() of the list comprehension, which
\* returns a file or raises, before the try block whose finally closes the files
OpenNext(i) ==
    /\ Executing
    /\ i \in Indices
    /\ st[i] = "running"
    /\ ~(ToOpen(i) = {} /\ ~Opened(kind, tasks[i + 1]).raised)
    /\ IF ToOpen(i) # {}
       THEN LET p == CHOOSE q \in ToOpen(i) : \A r \in ToOpen(i) : q <= r
            IN  /\ handles' = handles \cup HandlesOf(Len(calls), i, {p})
                /\ UNCHANGED <<st, future, pc, ret, manifest>>
       ELSE /\ handles' = Abandoned(handles, Len(calls), i)
            /\ st' = [st EXCEPT ![i] = "done"]
            /\ Ends(i, Raised(OpenMessage))
    /\ UNCHANGED <<max_workers, kind, nprompts, env, src, output_dir, session_dir,
                   tasks, results, dirs, files, backendCalls, arrival, clock, calls,
                   model, requests>>
    /\ UNCHANGED agentVars

\* client.images.generate / client.images.edit is called: the request of
\* task i reaches the backend
SendRequest(i) ==
    /\ Executing
    /\ i \in Indices
    /\ st[i] = "running"
    /\ ToOpen(i) = {}
    /\ ~Opened(kind, tasks[i + 1]).raised
    /\ st' = [st EXCEPT ![i] = "calling"]
    /\ backendCalls' = backendCalls \cup {i}
    /\ requests' = (i :> Request(kind, tasks[i + 1])) @@ requests
    /\ UNCHANGED <<max_workers, pc, kind, nprompts, env, src, output_dir, session_dir,
                   tasks, future, results, ret, manifest, dirs, files, arrival, clock,
                   calls, model, handles>>
    /\ UNCHANGED agentVars

\* The backend call of task i returns or raises.
BackendReturn(i) ==
    /\ Executing
    /\ i \in Indices
    /\ st[i] = "calling"
    /\ env[i] # "hang"
    /\ IF env[i] \in {"backend_error", "backend_exit"}
       THEN /\ Ends(i, IF env[i] = "backend_error" THEN Raised(BackendMessage)
                       ELSE Exited(BackendMessage))
            /\ st' = [st EXCEPT ![i] = "done"]
            /\ handles' = Closed(handles, Len(calls), i)
       ELSE /\ st' = [st EXCEPT ![i] = "writing"]
            /\ UNCHANGED <<future, pc, ret, manifest, handles>>
    /\ files' = AfterCall(files, tasks[i + 1][4], env[i])
    /\ UNCHANGED <<max_workers, kind, nprompts, env, src, output_dir, session_dir,
                   tasks, results, dirs, backendCalls, arrival, clock, calls,
                   model, requests>>
    /\ UNCHANGED agentVars

\* generate_image lines 54-59 and 63 / edit_image lines 98-103 and 107:
\* without an output path the image bytes are returned and no file is
\* written; with one, makedirs of the directory of the path, which raises for
\* a path without a directory, and open(output_path, "wb").
OpenOutput(i) ==
    /\ Executing
    /\ i \in Indices
    /\ st[i] = "writing"
    /\ LET path == tasks[i + 1][4]
       IN  IF path = NoPath
           THEN \* `if output_path:` is false
                /\ Ends(i, Returned)
                /\ st' = [st EXCEPT ![i] = "done"]
                /\ handles' = Closed(handles, Len(calls), i)
                /\ UNCHANGED <<dirs, files>>
           ELSE IF DirName(path) = NoDir
           THEN \* os.makedirs("") raises FileNotFoundError
                /\ Ends(i, Raised(MakedirsMessage))
                /\ st' = [st EXCEPT ![i] = "done"]
                /\ handles' = Closed(handles, Len(calls), i)
                /\ UNCHANGED <<dirs, files>>
           ELSE IF env[i] = "open_error"
           THEN /\ dirs' = dirs \cup {DirName(path)}
                /\ Ends(i, Raised(OutputMessage))
                /\ st' = [st EXCEPT ![i] = "done"]
                /\ handles' = Closed(handles, Len(calls), i)
                /\ UNCHANGED files
           ELSE /\ dirs' = dirs \cup {DirName(path)}
                /\ files' = Truncated(files, path)
                /\ st' = [st EXCEPT ![i] = "saving"]
                /\ UNCHANGED <<future, pc, ret, manifest, handles>>
    /\ UNCHANGED <<max_workers, kind, nprompts, env, src, output_dir, session_dir,
                   tasks, results, backendCalls, arrival, clock, calls, model, requests>>
    /\ UNCHANGED agentVars

\* generate_image lines 60-61 / edit_image lines 104-105: f.write, the close
\* of the output file and the return; a write that raises leaves the file
\* empty, as open() made it, or with the first bytes of the image.
WriteFile(i) ==
    /\ Executing
    /\ i \in Indices
    /\ st[i] = "saving"
    /\ LET task == tasks[i + 1]
           path == task[4]
       IN  IF env[i] = "write_error"
           THEN /\ Ends(i, Raised(WriteMessage))
                /\ \E part \in Partial(ImageBytes(task[1])) :
                       files' = Written(files, path, part)
           ELSE /\ files' = Written(files, path, ImageBytes(task[1]))
                /\ Ends(i, Returned)
    /\ st' = [st EXCEPT ![i] = "done"]
    /\ handles' = Closed(handles, Len(calls), i)
    /\ UNCHANGED <<max_workers, kind, nprompts, env, src, output_dir, session_dir,
                   tasks, results, dirs, backendCalls, arrival, clock, calls,
                   model, requests>>
    /\ UNCHANGED agentVars

\* One iteration of the as_completed loop: a finished future is yielded and
\* its record is appended to results, or future.result() raises an exception
\* that the loop does not catch and the calling thread leaves the loop.
Collect(i) ==
    /\ pc = "collecting"
    /\ i \in Indices
    /\ st[i] = "done"
    /\ IF Propagates(future[i])
       THEN /\ pc' = "unwinding"
            /\ ret' = [state |-> "unwinding", value |-> <<>>, exc |-> future[i].exc,
                       base |-> TRUE]
            /\ UNCHANGED <<results, arrival, st>>
       ELSE /\ results' = AppendResult(results, CollectedRecord(future[i], tasks[i + 1]))
            /\ arrival' = Append(arrival, i)
            /\ st' = [st EXCEPT ![i] = "collected"]
            /\ UNCHANGED <<pc, ret>>
    /\ UNCHANGED <<max_workers, kind, nprompts, env, src, output_dir, session_dir,
                   tasks, future, manifest, dirs, files, backendCalls, clock, calls,
                   model, requests, handles>>
    /\ UNCHANGED agentVars

\* The exit of the with block on an exception: shutdown(wait=True) returns
\* when the workers have run every work item, and the exception leaves the
\* batch call and the tool.
Unwind ==
    /\ pc = "unwinding"
    /\ \A i \in Indices : st[i] \in {"done", "collected"}
    /\ ret' = RaisedRet(ret.exc, ret.base)
    /\ pc' = "raised"
    /\ UNCHANGED <<max_workers, kind, nprompts, env, src, output_dir, session_dir,
                   tasks, st, future, results, manifest, dirs, files, backendCalls,
                   arrival, clock, calls, model, requests, handles>>
    /\ UNCHANGED agentVars

\* BatchResult without the sort: the records in arrival order
BatchResultUnsorted(rs) == rs

\* what the service returns once the loop has ended
BatchResult(rs) == SortByIndex(rs)

\* The loop has yielded every future: the service sorts and returns, and the
\* tool builds the manifest.
Finish ==
    /\ pc = "collecting"
    /\ LoopDone(st)
    /\ results' = BatchResult(results)
    /\ ret' = [state |-> "returned", value |-> results', exc |-> None, base |-> FALSE]
    /\ manifest' = BuildManifest(results', nprompts, output_dir)
    /\ pc' = "returned"
    /\ UNCHANGED <<max_workers, kind, nprompts, env, src, output_dir, session_dir,
                   tasks, st, future, dirs, files, backendCalls, arrival, clock, calls,
                   model, requests, handles>>
    /\ UNCHANGED agentVars

\* The call has returned or raised and the caller is ready for another one:
\* what the call held is gone, the file system and the clock stay.
Return ==
    /\ pc \in {"returned", "raised"}
    /\ Len(calls) < MaxCalls
    /\ pc' = "idle"
    /\ kind' = "none"
    /\ nprompts' = 0
    /\ env' = <<>>
    /\ src' = <<>>
    /\ output_dir' = NoDir
    /\ session_dir' = NoDir
    /\ tasks' = <<>>
    /\ st' = <<>>
    /\ future' = <<>>
    /\ results' = <<>>
    /\ ret' = NoRet
    /\ manifest' = NoManifest
    /\ backendCalls' = {}
    /\ arrival' = <<>>
    /\ model' = DefaultModel
    /\ requests' = <<>>
    /\ UNCHANGED <<max_workers, dirs, files, clock, calls, handles>>
    /\ UNCHANGED agentVars

---------------------------------------------------------------------------
(* Specifications *)

Kinds == {"generate", "edit"}
Models == {DefaultModel, OtherModel}
OutputDirs == {NoDir, CustomDir}

\* the outcomes that an edit handles with code of its own: the finally block
\* of edit_image, and the except clause of _worker_edit_image
EditOutcomes == {"ok", "backend_error", "backend_exit", "write_error", "hang"}

\* What one task of a batch meets: <<state of its source images, outcome>>.
\* A generation task meets every outcome; an editing task whose sources open
\* meets the outcomes of EditOutcomes.  The outcome is not read when the
\* source images cannot be opened.
Scenarios(k) ==
    IF k = "generate" THEN {<<"na", e>> : e \in EnvOutcomes}
    ELSE {<<"present", e>> : e \in EditOutcomes}
         \cup {<<"empty", "ok">>, <<"unreadable", "ok">>, <<"second_unreadable", "ok">>,
               <<"missing", "ok">>}

\* by how much len(image_paths_list) differs from len(prompts)
Deltas(k, n) ==
    IF k = "generate" THEN {0}
    ELSE {d \in (0 - MaxExtra)..MaxExtra : n + d >= 0}

\* the call of a tool with n prompts that meet the scenarios sc, and for
\* editing n + d source-image lists, those beyond the prompts in states extra
CallWith(k, n, mdl, outdir, now, sc, d, extra) ==
    LET m == IF k = "generate" THEN 0 ELSE n + d
        e == [i \in 0..(n - 1) |-> sc[i][2]]
        s == [i \in 0..(m - 1) |-> IF i < n THEN sc[i][1] ELSE extra[i]]
    IN  ToolCall(k, n, IF k = "generate" THEN n ELSE m, mdl, outdir, e, s, now)

\* every batch of at most MaxN prompts, on every environment
CallAny ==
    /\ pc = "idle"
    /\ \E k \in Kinds, n \in 0..MaxN, mdl \in Models, outdir \in OutputDirs :
        \E sc \in [0..(n - 1) -> Scenarios(k)], d \in Deltas(k, n) :
            \E extra \in [n..(n + d - 1) -> {"present", "missing"}] :
                /\ CallWith(k, n, mdl, outdir, clock, sc, d, extra)
                /\ UNCHANGED agentVars

\* what a task of a batch into the current directory meets: the backend
\* answers or fails; the output file is never reached
DotScenarios == {<<"na", "ok">>, <<"na", "backend_error">>}

\* every generation batch of at most MaxN prompts with output_dir "."
CallDot ==
    /\ pc = "idle"
    /\ \E n \in 0..MaxN :
        \E sc \in [0..(n - 1) -> DotScenarios] :
            /\ CallWith("generate", n, DefaultModel, DotDir, clock, sc, 0, <<>>)
            /\ UNCHANGED agentVars

\* the single tools
OneKinds == {"generate_image", "edit_image"}

\* the output paths of a single call: none, a file in a directory, and a bare
\* file name
OnePaths ==
    {NoPath, [dir |-> <<"single_dir">>, file |-> <<"one.png">>],
     [dir |-> NoDir, file |-> <<"one.png">>]}

\* what a single call meets: a state of its source images, and an outcome
\* other than those of the executor
OneScenarios(k) ==
    {<<s, e>> : s \in IF k \in GenerateKinds THEN {"na"} ELSE SrcStates,
                e \in EnvOutcomes \ {"executor_error", "executor_exit"}}

\* every call of a single tool, on every environment
CallOne ==
    /\ pc = "idle"
    /\ \E k \in OneKinds, mdl \in Models, outpath \in OnePaths :
        \E sc \in OneScenarios(k) :
            /\ ToolCallOne(k, mdl, outpath, sc[2], sc[1], clock)
            /\ UNCHANGED agentVars

\* every call of generate_image or edit_image of the service on its own, on
\* every environment
CallService ==
    /\ pc = "idle"
    /\ \E k \in ServiceKinds, mdl \in Models, outpath \in OnePaths :
        \E sc \in OneScenarios(k) :
            /\ ServiceCall(k, mdl, outpath, sc[2], sc[1], clock)
            /\ UNCHANGED agentVars

\* the first tasks of a batch of n, at most MaxLive of them
LiveSets(n) == {0..(l - 1) : l \in 0..Min(MaxLive, n)}

\* a task whose backend call never returns
Hanging(k) == <<IF k = "generate" THEN "na" ELSE "present", "hang">>

\* the batch sizes of the pool-cap specification: one the pool can hold and
\* one it cannot
CapSizes == {MaxLive, CapN}

\* what a task that is answered meets in the pool-cap specification
CapScenarios == {<<"na", "ok">>, <<"na", "backend_error">>}

\* a generation batch in which the backend answers the first requests, at
\* most MaxLive of them, and never returns from the others, into a fresh
\* session directory
CallCap ==
    /\ pc = "idle"
    /\ \E n \in CapSizes, L \in LiveSets(CapN) :
        /\ L \subseteq 0..(n - 1)
        /\ \E lsc \in [L -> CapScenarios] :
            /\ CallWith("generate", n, DefaultModel, NoDir, clock,
                        [i \in 0..(n - 1) |-> IF i \in L THEN lsc[i] ELSE Hanging("generate")],
                        0, <<>>)
            /\ UNCHANGED agentVars

Next ==
    \/ CallAny
    \/ CallDot
    \/ CallOne
    \/ CallService
    \/ Submit
    \/ \E i \in Indices : Start(i)
    \/ \E i \in Indices : OpenNext(i)
    \/ \E i \in Indices : SendRequest(i)
    \/ \E i \in Indices : BackendReturn(i)
    \/ \E i \in Indices : OpenOutput(i)
    \/ \E i \in Indices : WriteFile(i)
    \/ \E i \in Indices : Collect(i)
    \/ Finish
    \/ Unwind

Spec == Init /\ [][Next]_vars

NextCap ==
    \/ CallCap
    \/ Submit
    \/ \E i \in Indices : Start(i)
    \/ \E i \in Indices : SendRequest(i)
    \/ \E i \in Indices : BackendReturn(i)
    \/ \E i \in Indices : OpenOutput(i)
    \/ \E i \in Indices : WriteFile(i)
    \/ \E i \in Indices : Collect(i)
    \/ Finish

\* batches larger than the pool
SpecCap == Init /\ [][NextCap]_vars

\* a small batch, at the current second or a later one
CallSeq ==
    /\ pc = "idle"
    /\ \E k \in Kinds, n \in SeqSizes, outdir \in OutputDirs, now \in clock..SeqClock :
        \E sc \in [0..(n - 1) -> Scenarios(k)] :
            /\ CallWith(k, n, DefaultModel, outdir, now, sc, 0, <<>>)
            /\ UNCHANGED agentVars

NextSeq ==
    \/ CallSeq
    \/ Submit
    \/ \E i \in Indices : Start(i)
    \/ \E i \in Indices : OpenNext(i)
    \/ \E i \in Indices : SendRequest(i)
    \/ \E i \in Indices : BackendReturn(i)
    \/ \E i \in Indices : OpenOutput(i)
    \/ \E i \in Indices : WriteFile(i)
    \/ \E i \in Indices : Collect(i)
    \/ Finish
    \/ Unwind
    \/ Return

\* several batch calls one after the other on one service object
SpecSeq == Init /\ [][NextSeq]_vars

\* what a task of the specification with fairness meets
LiveScenarios(k) ==
    {sc \in Scenarios(k) : sc[1] \in {"na", "present"} /\ sc[2] \in {"ok", "backend_error", "hang"}}

\* a batch of at most LiveN prompts into a fresh session directory
CallLive ==
    /\ pc = "idle"
    /\ \E k \in Kinds, n \in 0..LiveN :
        \E sc \in [0..(n - 1) -> LiveScenarios(k)] :
            /\ CallWith(k, n, DefaultModel, NoDir, clock, sc, 0, <<>>)
            /\ UNCHANGED agentVars

NextLive ==
    \/ CallLive
    \/ Submit
    \/ \E i \in Indices : Start(i)
    \/ \E i \in Indices : OpenNext(i)
    \/ \E i \in Indices : SendRequest(i)
    \/ \E i \in Indices : BackendReturn(i)
    \/ \E i \in Indices : OpenOutput(i)
    \/ \E i \in Indices : WriteFile(i)
    \/ \E i \in Indices : Collect(i)
    \/ Finish

\* The worker threads and the calling thread keep running: an idle worker
\* takes the next queued item, an open() returns or raises, the request is
\* sent, a backend call that is not stuck returns, a write ends, and the loop
\* of the calling thread goes on.
Fairness ==
    /\ WF_vars(Submit)
    /\ WF_vars(\E i \in Indices : Start(i))
    /\ WF_vars(\E i \in Indices : OpenNext(i))
    /\ WF_vars(\E i \in Indices : SendRequest(i))
    /\ WF_vars(\E i \in Indices : BackendReturn(i))
    /\ WF_vars(\E i \in Indices : OpenOutput(i))
    /\ WF_vars(\E i \in Indices : WriteFile(i))
    /\ WF_vars(\E i \in Indices : Collect(i))
    /\ WF_vars(Finish)

SpecLive == Init /\ [][NextLive]_vars /\ Fairness

---------------------------------------------------------------------------
(* The workflow's steps *)

batchVars == <<max_workers, pc, kind, nprompts, env, src, output_dir, session_dir,
               tasks, st, future, results, ret, manifest, dirs, files,
               backendCalls, arrival, clock, calls, model, requests, handles>>

\* what a task of the workflow's batch meets
AgentScenarios == {<<"na", e>> : e \in {"ok", "backend_error", "write_error"}}

\* generate_memes_from_story(story): agent.invoke on the initial state, with
\* the tools of the module, whose service object has the default pool
Invoke(resp) ==
    /\ agent_pc = "idle"
    /\ pc = "idle"
    /\ max_workers = PoolSize(DefaultWorkers)
    /\ response' = resp
    /\ agent' = create_initial_state
    /\ active' = {"analyze_story"}
    /\ writes' = <<>>
    /\ visited' = {}
    /\ agent_pc' = "running"
    /\ UNCHANGED agent_ret
    /\ UNCHANGED batchVars

\* a node n that is due in the current step and has not run in it
Due(n) == agent_pc = "running" /\ n \in active /\ n \notin DOMAIN writes

RunAnalyzeStory ==
    /\ Due("analyze_story")
    /\ writes' = ("analyze_story" :> analyze_story(agent, response)) @@ writes
    /\ visited' = visited \cup {"analyze_story"}
    /\ UNCHANGED <<response, agent, active, agent_pc, agent_ret>>
    /\ UNCHANGED batchVars

RunGenerateMemeImages ==
    /\ Due("generate_meme_images")
    /\ writes' = ("generate_meme_images" :> generate_meme_images(agent)) @@ writes
    /\ visited' = visited \cup {"generate_meme_images"}
    /\ UNCHANGED <<response, agent, active, agent_pc, agent_ret>>
    /\ UNCHANGED batchVars

\* The tool node takes the tool call of the last message and calls the tool
\* bulk_generate_images with the prompts, the model gpt-image-1 and no
\* output_dir; it raises when the last message is no AIMessage.
RunImageTools ==
    /\ Due("image_tools")
    /\ pc = "idle"
    /\ visited' = visited \cup {"image_tools"}
    /\ IF agent.messages[Len(agent.messages)].type # "ai"
       THEN /\ agent_pc' = "raised"
            /\ agent_ret' = [NoResult EXCEPT !.error = NotAnAIMessage]
            /\ UNCHANGED <<response, agent, active, writes>>
            /\ UNCHANGED batchVars
       ELSE /\ \E sc \in [0..(Len(agent.meme_prompts) - 1) -> AgentScenarios] :
                CallWith("generate", Len(agent.meme_prompts), DefaultModel, NoDir, clock,
                         sc, 0, <<>>)
            /\ UNCHANGED <<response, agent, active, writes, agent_pc, agent_ret>>

\* The tool has returned (or raised, which the tool node turns into an error
\* message): the tool node's update is the list of its one ToolMessage.
ImageToolsDone ==
    /\ Due("image_tools")
    /\ "image_tools" \in visited
    /\ pc \in {"returned", "raised"}
    /\ IF pc = "raised" /\ ret.base
       THEN \* an exception that is no Exception leaves the tool node and the run
            /\ agent_pc' = "raised"
            /\ agent_ret' = [NoResult EXCEPT !.error = ret.exc]
            /\ UNCHANGED writes
       ELSE /\ writes' = ("image_tools" :>
                            [messages |-> <<IF pc = "returned" THEN ToolMessage(manifest)
                                            ELSE ToolErrorMessage>>]) @@ writes
            /\ UNCHANGED <<agent_pc, agent_ret>>
    /\ UNCHANGED <<response, agent, active, visited>>
    /\ UNCHANGED batchVars

RunProcessImageResults ==
    /\ Due("process_image_results")
    /\ writes' = ("process_image_results" :>
                    process_image_results(agent, ToolMessages(agent.messages))) @@ writes
    /\ visited' = visited \cup {"process_image_results"}
    /\ UNCHANGED <<response, agent, active, agent_pc, agent_ret>>
    /\ UNCHANGED batchVars

RunHandleError ==
    /\ Due("handle_error")
    /\ writes' = ("handle_error" :> handle_error(agent)) @@ writes
    /\ visited' = visited \cup {"handle_error"}
    /\ UNCHANGED <<response, agent, active, agent_pc, agent_ret>>
    /\ UNCHANGED batchVars

\* The end of a step: the updates of the nodes that ran are applied (two
\* updates of one key in one step are an InvalidUpdateError), the nodes of the
\* next step are the successors of those that ran, and the workflow ends
\* when there is none.
Commit ==
    /\ agent_pc = "running"
    /\ active # {}
    /\ DOMAIN writes = active
    /\ writes' = <<>>
    /\ IF \E n, m \in active : n # m /\ DOMAIN writes[n] \cap DOMAIN writes[m] # {}
       THEN /\ agent_pc' = "raised"
            /\ agent_ret' = [NoResult EXCEPT !.error = InvalidUpdate]
            /\ UNCHANGED <<agent, active>>
       ELSE LET merged == [f \in DOMAIN agent |->
                            IF \E n \in active : f \in DOMAIN writes[n]
                            THEN writes[CHOOSE n \in active : f \in DOMAIN writes[n]][f]
                            ELSE agent[f]]
                next == UNION {Successors(n, Updated(agent, writes[n])) : n \in active}
            IN  /\ agent' = merged
                /\ active' = next
                /\ agent_pc' = IF next = {} THEN "returned" ELSE "running"
                /\ agent_ret' = IF next = {} THEN Result(merged) ELSE agent_ret
    /\ UNCHANGED <<response, visited>>
    /\ UNCHANGED batchVars

---------------------------------------------------------------------------
(* Specifications of the workflow *)

\* the JSON array of n objects
Objects(n) == [k \in 1..n |-> "obj"]

\* the paragraphs of a response that is no JSON: p long ones, then s short ones
Paragraphs(p, s) == [k \in 1..(p + s) |-> IF k <= p THEN "para" ELSE "short"]

\* a bracketed reference, such as [1], in the text before the array
Citation == <<"[", "num", "]">>

\* the responses with a JSON array of at most n objects, opened in any of the
\* three ways, after some text or a bracketed reference, before some text
ArrayResponses(n) ==
    {lead \o <<open>> \o Objects(k) \o <<"]">> \o trail :
        lead \in {<<>>, <<"para">>, Citation}, open \in Opens, k \in 1..n,
        trail \in {<<>>, <<"para">>}}
    \cup {<<"[", "]">>, <<"para", "[", "]">>}

\* the responses whose brackets hold no array of objects
BrokenResponses ==
    {<<"[", "obj", "para", "]">>, <<"[q", "obj", "num", "]">>, <<"[", "num", "]">>,
     <<"[n", "obj", "]", "para", "]">>}

\* the responses of plain text, with no bracket or with no closing bracket
\* after the opening one
TextResponses(n) ==
    {Paragraphs(p, s) : p \in 0..n, s \in 0..1}
    \cup {<<"]", "para", "[">>, <<"para", "[", "short">>, <<"]", "para">>}

\* the chat model answers with any response of the bounded sets
InvokeAny ==
    \E resp \in ArrayResponses(MaxItems) \cup BrokenResponses \cup TextResponses(MaxItems) :
        Invoke(resp)

NextAnalyze ==
    \/ InvokeAny
    \/ RunAnalyzeStory

\* analyze_story on every response
SpecAnalyze == Init /\ [][NextAnalyze]_vars

\* the chat model answers with a response that yields at most AgentN prompts
InvokeSmall ==
    \E resp \in ArrayResponses(AgentN) \cup BrokenResponses : Invoke(resp)

NextAgent ==
    \/ InvokeSmall
    \/ RunAnalyzeStory
    \/ RunGenerateMemeImages
    \/ RunImageTools
    \/ Submit
    \/ \E i \in Indices : Start(i)
    \/ \E i \in Indices : SendRequest(i)
    \/ \E i \in Indices : BackendReturn(i)
    \/ \E i \in Indices : OpenOutput(i)
    \/ \E i \in Indices : WriteFile(i)
    \/ \E i \in Indices : Collect(i)
    \/ Finish
    \/ ImageToolsDone
    \/ RunProcessImageResults
    \/ RunHandleError
    \/ Commit

\* one run of generate_memes_from_story
SpecAgent == Init /\ [][NextAgent]_vars

---------------------------------------------------------------------------
(* Properties *)

\* the service call has returned its list
ServiceReturned == ret.state = "returned"

\* the records of rs that carry index i
RecordsOf(rs, i) == {k \in 1..Len(rs) : rs[k].index = i}

\* the tool has returned a manifest that carries a results list
HasResults == pc = "returned" /\ "results" \in DOMAIN manifest

\* the futures were yielded in another order than the submission order
OutOfOrder == \E k \in 1..(Len(arrival) - 1) : arrival[k] > arrival[k + 1]

\* the source images of task i open (a generation task has none)
SourcesOpen(i) == kind = "generate" \/ src[i] \in {"present", "empty"}

\* C1: the list a batch of N prompts returns holds exactly N records, one for
\* each index 0..N-1: no result is lost and none appears twice, whatever the
\* interleaving of the workers and the outcomes of the tasks.
C1_OneResultPerTask ==
    ServiceReturned =>
        /\ Len(ret.value) = nprompts
        /\ \A i \in 0..(nprompts - 1) : Cardinality(RecordsOf(ret.value, i)) = 1

\* a batch of several tasks, collected out of submission order, of which one
\* failed and one succeeded, has returned
C1_Witness ==
    /\ ServiceReturned
    /\ nprompts >= 2
    /\ OutOfOrder
    /\ \E k, l \in 1..Len(ret.value) : ret.value[k].success /\ ~ret.value[l].success

\* C2: the returned list is sorted ascending by index, whatever order the
\* workers completed in.
C2_SortedByIndex ==
    ServiceReturned =>
        \A k \in 1..(Len(ret.value) - 1) : ret.value[k].index <= ret.value[k + 1].index

\* a batch whose first submitted task was collected last has returned
C2_Witness ==
    /\ ServiceReturned
    /\ Len(arrival) >= 2
    /\ arrival[Len(arrival)] = 0

\* C3: at most 10 tasks have started executing and not completed, for every
\* batch size and every requested pool size.
C3_AtMostTenRunning == Cardinality(Running) <= WorkerCap

\* the pool is full while a task of the batch waits in the queue
C3_Witness ==
    /\ Cardinality(Running) = WorkerCap
    /\ \E i \in Indices : st[i] = "queued"

\* the batch call has ended after it submitted its tasks: it has returned its
\* list, or an exception has left it
BatchEnded ==
    \/ ServiceReturned
    \/ kind \in {"generate", "edit"} /\ pc = "raised" /\ st # <<>>

\* the output path of task i names a directory: makedirs does not raise
HasDirectory(i) == DirName(tasks[i + 1][4]) # NoDir

\* C4 as stated: when the batch call has ended, every task whose own backend
\* call and write succeed has a record with success = true, whatever happened
\* to the other tasks, and the record of a task whose backend call or write
\* failed carries the message of that error.
C4_FaultIsolation ==
    BatchEnded =>
        \A i \in Indices :
            /\ (env[i] = "ok" /\ SourcesOpen(i) /\ HasDirectory(i)) =>
                   /\ RecordsOf(ret.value, i) # {}
                   /\ \A k \in RecordsOf(ret.value, i) : ret.value[k].success
            /\ (env[i] \in {"backend_error", "backend_exit"} /\ SourcesOpen(i)) =>
                   /\ RecordsOf(ret.value, i) # {}
                   /\ \A k \in RecordsOf(ret.value, i) :
                          ~ret.value[k].success /\ ret.value[k].error = BackendMessage
            /\ (env[i] = "write_error" /\ SourcesOpen(i) /\ HasDirectory(i)) =>
                   /\ RecordsOf(ret.value, i) # {}
                   /\ \A k \in RecordsOf(ret.value, i) :
                          ~ret.value[k].success /\ ret.value[k].error = WriteMessage
            /\ (env[i] = "open_error" /\ SourcesOpen(i) /\ HasDirectory(i)) =>
                   /\ RecordsOf(ret.value, i) # {}
                   /\ \A k \in RecordsOf(ret.value, i) :
                          ~ret.value[k].success /\ ret.value[k].error = OutputMessage
            /\ (env[i] \in {"ok", "open_error", "write_error"} /\ SourcesOpen(i)
                    /\ ~HasDirectory(i)) =>
                   /\ RecordsOf(ret.value, i) # {}
                   /\ \A k \in RecordsOf(ret.value, i) :
                          ~ret.value[k].success /\ ret.value[k].error = MakedirsMessage

\* C5: the success flag of a manifest that carries results is true exactly
\* when every result of the manifest has success = true.
C5_SuccessIffAll ==
    HasResults =>
        (manifest.success <=>
            \A k \in 1..Len(manifest.results) : manifest.results[k].success)

\* a manifest with a successful and a failed result
C5_Witness ==
    /\ HasResults
    /\ \E k, l \in 1..Len(manifest.results) :
        manifest.results[k].success /\ ~manifest.results[l].success

\* the positions of the successful results of the manifest
Successes == {k \in 1..Len(manifest.results) : manifest.results[k].success}

\* C6: output_paths holds exactly the output paths of the successful
\* results, in ascending index order, and no entry for a failed result.
C6_OutputPaths ==
    HasResults =>
        LET rs == manifest.results
            ps == manifest.output_paths
        IN  /\ Len(ps) = Cardinality(Successes)
            /\ \A j \in 1..Len(ps) : \E k \in Successes : ps[j] = rs[k].output_path
            /\ \A k \in Successes : \E j \in 1..Len(ps) : ps[j] = rs[k].output_path
            /\ \A j1, j2 \in 1..Len(ps) :
                   j1 < j2 =>
                       \E k1, k2 \in Successes :
                           /\ ps[j1] = rs[k1].output_path
                           /\ ps[j2] = rs[k2].output_path
                           /\ rs[k1].index < rs[k2].index
            /\ \A k \in (1..Len(rs)) \ Successes :
                   \A j \in 1..Len(ps) : ps[j] # rs[k].output_path

\* a manifest whose task 0 failed and whose later task succeeded
C6_Witness ==
    /\ HasResults
    /\ Len(manifest.output_paths) >= 1
    /\ Len(manifest.results) >= 2
    /\ ~manifest.results[1].success

\* the editing tool was called with lists of different lengths
EditMismatch == kind = "edit" /\ nprompts # Cardinality(DOMAIN src)

\* C7: an editing batch whose prompts and source-image lists differ in length
\* fails before any work is started: no task is built or dispatched, no
\* request reaches the backend, and no directory or file is created.
C7_MismatchStartsNothing ==
    EditMismatch =>
        /\ pc \in {"raised", "returned"}
        /\ ret.state # "returned"
        /\ ~manifest.success
        /\ tasks = <<>>
        /\ st = <<>>
        /\ backendCalls = {}
        /\ session_dir = NoDir
        /\ dirs = {}
        /\ files = <<>>

\* the service has raised the ValueError on two prompts and another number
\* of source-image lists
C7_Witness ==
    /\ EditMismatch
    /\ nprompts = 2
    /\ pc = "raised"
    /\ ret.exc = MismatchMessage

\* C8: a batch called with an empty prompt list does not return a manifest
\* that reports success.
C8_EmptyBatchRejected ==
    (kind # "none" /\ nprompts = 0 /\ pc = "returned") => ~manifest.success

\* some source image of task i of an edit cannot be opened
Unopenable(i) ==
    /\ kind \in EditKinds
    /\ \E p \in 1..Len(SourcePaths(src[i])) : SourcePaths(src[i])[p] # "readable"

\* the message the record of task i carries when its call failed
FailureMessage(i) ==
    IF Unopenable(i) THEN OpenMessage
    ELSE IF env[i] \in {"backend_error", "backend_exit"} THEN BackendMessage
    ELSE IF ~HasDirectory(i) THEN MakedirsMessage
    ELSE IF env[i] = "open_error" THEN OutputMessage
    ELSE WriteMessage

\* the call of generate_image / edit_image for task i fails
CallFails(i) ==
    \/ Unopenable(i)
    \/ env[i] \in {"backend_error", "backend_exit", "open_error", "write_error"}
    \/ ~HasDirectory(i)

\* the executor has something to say about task i other than what the
\* worker function does with the call it makes
ExecutorFault(i) == env[i] \in {"executor_error", "executor_exit"}

\* C9 as stated: the worker function never raises: for every failure of the
\* backend call, of the file write or of the opening of a source image it
\* returns a record with success = false, the index of its task and the
\* message of the error.
C9_RunnerNeverRaises ==
    \A i \in Indices :
        (future[i].state # "pending" /\ ~ExecutorFault(i)) =>
            /\ future[i].state = "value"
            /\ future[i].value.index = i
            /\ CallFails(i) => future[i].value = FailResult(i, FailureMessage(i))

\* C10 as stated: when a future ends with an exception, the orchestrator
\* records a failed result with the index of the task submitted on that future
\* and the message of the exception; the batch call raises only for its own
\* arguments, before any task is submitted.
C10_OrchestratorCatches ==
    /\ \A i \in Indices :
        (st[i] = "collected" /\ future[i].state = "exception") =>
            /\ \E k \in 1..Len(results) : results[k] = FailResult(i, future[i].exc)
            /\ \A k \in 1..Len(results) :
                   results[k].error = future[i].exc => results[k].index \in
                       {j \in Indices : future[j].state = "exception"}
    /\ (kind \in {"generate", "edit"} /\ pc = "raised") =>
        (st = <<>> /\ ret.exc \in {MismatchMessage, PoolMessage})

\* the records the batch holds: those stored on the futures and those collected
Records ==
    {future[i].value : i \in {j \in Indices : future[j].state = "value"}}
        \cup {results[k] : k \in 1..Len(results)}

\* C11: in every result record, success = true comes with an output path and
\* no error, and success = false with an error and no output path.
C11_RecordShape ==
    \A r \in Records :
        /\ r.success => (r.output_path # NoPath /\ r.error = None)
        /\ ~r.success => (r.error # None /\ r.output_path = NoPath)

\* the list holds a successful record and the record of a failed call or of
\* an exception of a future
C11_Witness ==
    /\ \E k \in 1..Len(results) : results[k].success
    /\ \E k \in 1..Len(results) :
        results[k].error \in {BackendMessage, WriteMessage, ExecutorMessage}

\* the prefix of the file names of the running batch
Prefix == IF kind = "generate" THEN GeneratePrefix ELSE EditPrefix

\* C12: a record of index i with success = true carries the path allocated
\* for index i in the session directory, and when it is produced the file at
\* that path holds the bytes the backend returned for task i.
C12_SuccessMeansWritten ==
    \A i \in Indices :
        (future[i].state = "value" /\ future[i].value.success) =>
            LET path == future[i].value.output_path
            IN  /\ path = PathFor(session_dir, Prefix, i)
                /\ path \in DOMAIN files
                /\ files[path] = ImageBytes(Prompt(i))

\* two tasks of one batch have both produced a successful record
C12_Witness ==
    \E i, j \in Indices :
        /\ i # j
        /\ future[i].state = "value" /\ future[i].value.success
        /\ future[j].state = "value" /\ future[j].value.success

\* the file names of the indices 0..MaxIndex are pairwise distinct, past the
\* width of the padding too
NamesDistinct ==
    Cardinality({PathFor(CustomDir, GeneratePrefix, i) : i \in 0..MaxIndex}) = MaxIndex + 1

\* C13: the output path of a task is PathFor(session directory, prefix,
\* index), the tasks of a batch have pairwise distinct paths, and so no two
\* tasks are ever writing the same file.
C13_DistinctPaths ==
    /\ NamesDistinct
    /\ kind \in {"generate", "edit"} =>
        \A k \in 1..Len(tasks) : tasks[k][4] = PathFor(session_dir, Prefix, tasks[k][3])
    /\ \A k, l \in 1..Len(tasks) : k # l => tasks[k][4] # tasks[l][4]
    /\ \A i, j \in Indices :
        (i # j /\ st[i] \in {"writing", "saving"} /\ st[j] \in {"writing", "saving"}) =>
            tasks[i + 1][4] # tasks[j + 1][4]

\* two tasks of one batch have their output files open at the same time
C13_Witness ==
    \E i, j \in Indices : i # j /\ st[i] = "saving" /\ st[j] = "saving"

\* the calls that resolved a session directory
Resolved == {a \in 1..Len(calls) : calls[a].dir # NoDir}

\* C14 as stated: two batch calls made without a caller-supplied directory
\* never resolve to the same session directory, whatever the time between them.
C14_NeverShared ==
    \A a, b \in Resolved :
        (a # b /\ ~calls[a].supplied /\ ~calls[b].supplied) => calls[a].dir # calls[b].dir

\* C14, amended: two batch calls resolve to the same session directory only
\* when the caller supplied it to both, or when neither was given one and both
\* were made within the same second; calls without a supplied directory made
\* in different seconds get different directories.
C14_SharedOnlyIfSuppliedOrSameSecond ==
    \A a, b \in Resolved :
        (a # b /\ calls[a].dir = calls[b].dir) =>
            \/ calls[a].supplied /\ calls[b].supplied
            \/ ~calls[a].supplied /\ ~calls[b].supplied /\ calls[a].at = calls[b].at

\* two calls without a supplied directory were made in different seconds
C14_Witness ==
    /\ Len(calls) = 2
    /\ Resolved = {1, 2}
    /\ ~calls[1].supplied /\ ~calls[2].supplied
    /\ calls[1].at # calls[2].at
    /\ pc = "returned"

\* the session directory of the running batch was resolved
DirResolved ==
    /\ pc \in {"submitting", "collecting", "unwinding", "returned", "raised"}
    /\ session_dir # NoDir

\* the path lies directly inside dir; directly inside the current directory
\* it is a bare file name
Inside(path, dir) == DirName(path) = (IF dir = DotDir THEN NoDir ELSE dir)

\* C15: when the caller supplies a session directory, the batch creates it
\* (the current directory is there already), allocates no timestamped
\* directory, and the output path of every task lies directly inside the
\* supplied directory.
C15_SuppliedDirUsed ==
    (output_dir # NoDir /\ DirResolved) =>
        /\ session_dir = output_dir
        /\ output_dir # DotDir => output_dir \in dirs
        /\ SessionDirName(clock) \notin dirs
        /\ <<"generated_images">> \notin dirs
        /\ dirs = {output_dir} \ {DotDir}
        /\ \A k \in 1..Len(tasks) : Inside(tasks[k][4], output_dir)
        /\ \A path \in DOMAIN files : Inside(path, output_dir)

\* a batch of two tasks has written both files into the supplied directory
C15_Witness ==
    /\ output_dir = CustomDir
    /\ pc = "returned"
    /\ Len(tasks) = 2
    /\ Cardinality({path \in DOMAIN files :
                        \E i \in Indices : /\ path = tasks[i + 1][4]
                                           /\ files[path] = ImageBytes(Prompt(i))}) = 2

\* C16 as stated: the session_dir of the manifest is the directory resolved
\* for the batch, for every pattern of task outcomes.
C16_ManifestSessionDir ==
    HasResults => manifest.session_dir = session_dir

\* C17: the batch call has returned only if every task it dispatched has
\* completed and its future has been yielded; none is queued or executing.
C17_ReturnsAfterAll ==
    ServiceReturned =>
        /\ \A i \in Indices : st[i] = "collected" /\ future[i].state # "pending"
        /\ Indices = 0..(Len(tasks) - 1)
        /\ Len(ret.value) = Len(tasks)

\* a batch of two tasks has returned
C17_Witness == ServiceReturned /\ Len(tasks) = 2 /\ arrival = <<1, 0>>

\* the tasks of the batch whose backend call never returns
Stuck == {i \in DOMAIN env : env[i] = "hang"}

\* task i was submitted and its backend call and file write terminate
Live(i) == pc = "collecting" /\ i \in Indices /\ env[i] # "hang"

\* task i has been executed to completion
Completed(i) == i \in Indices /\ st[i] \in {"done", "collected"}

\* C18 as stated: whatever the pool size and the batch size, every task
\* whose backend call and file write terminate is eventually completed, also
\* when other tasks of the batch never return.
C18_StuckHaltsNone ==
    \A i \in 0..LiveN : Live(i) ~> Completed(i)

\* C18, amended: when fewer tasks of the batch are stuck than the pool has
\* workers, every task whose backend call and file write terminate is
\* eventually completed.
C18_StuckHaltsNoneWhileSlotsRemain ==
    \A i \in 0..LiveN :
        (Live(i) /\ Cardinality(Stuck) < max_workers) ~> Completed(i)

\* a task is stuck in its backend call and a task submitted after it has
\* completed
C18_Witness ==
    \E i, j \in Indices :
        /\ j < i
        /\ env[j] = "hang" /\ st[j] = "calling"
        /\ st[i] = "collected"
        /\ i \in backendCalls

C20_SourceErrorPerTask ==
    (/\ kind = "edit"
     /\ pc = "returned"
     /\ Cardinality(DOMAIN src) = nprompts
     /\ \E i \in DOMAIN src : src[i] \in {"missing", "unreadable", "second_unreadable"}) =>
        /\ "results" \in DOMAIN manifest
        /\ Len(manifest.results) = nprompts
        /\ \A i \in DOMAIN src :
            src[i] \in {"present", "empty"} => i \in backendCalls

\* C21: once edit_image has returned or failed for a task, by any exit path
\* (success, backend error, write error, or a source path that cannot be
\* opened after earlier ones were opened), no source-image file opened by that
\* call is still open.
C21_HandlesReleased ==
    /\ \A i \in Indices : st[i] \in {"done", "collected"} => OpenHandles(i) = {}
    /\ pc \in {"returned", "raised"} => handles = {}

\* an edit whose second source path cannot be opened has failed with the
\* error of the open, and an edit of the same batch has written its file
C21_Witness ==
    /\ kind = "edit"
    /\ \E i, j \in Indices :
        /\ src[i] = "second_unreadable"
        /\ st[i] \in {"done", "collected"}
        /\ future[i].value = FailResult(i, OpenMessage)
        /\ src[j] = "present"
        /\ st[j] \in {"done", "collected"}
        /\ future[j].value.success

\* C22: when some path of the source-image list of an edit does not exist or
\* cannot be opened, no request for that task reaches the image backend and
\* the task's record is a failure that carries the error of the open.
C22_FailsFast ==
    \A i \in DOMAIN src :
        Unopenable(i) =>
            /\ i \notin backendCalls
            /\ i \notin DOMAIN requests
            /\ (i \in Indices /\ future[i].state = "value") =>
                future[i].value = FailResult(i, OpenMessage)

\* the edit of a list whose second path cannot be opened has failed, while
\* another task of the batch reached the backend
C22_Witness ==
    \E i, j \in Indices :
        /\ kind = "edit"
        /\ src[i] = "second_unreadable"
        /\ st[i] = "collected"
        /\ j \in backendCalls

\* C23 as stated: every backend request of a batch carries the model
\* identifier passed to the batch entry point, for generating and editing.
C23_BatchModelUsed ==
    \A i \in DOMAIN requests : requests[i].model = model

\* the backend operation the sources of task i call for
WantedOp(i) ==
    IF kind \in GenerateKinds THEN "generate"
    ELSE IF SourcePaths(src[i]) = <<>> THEN "generate" ELSE "edit"

\* C24 as stated: a task goes to the backend's generate operation when its
\* source-image list is empty and to the edit operation otherwise.
C24_DispatchBySources ==
    \A i \in DOMAIN requests : requests[i].op = WantedOp(i)

\* the record that the inputs of the batch and the outcome met by index i
\* call for, whatever the schedule
ExpectedRecord(i) ==
    IF env[i] = "executor_error" THEN FailResult(i, ExecutorMessage)
    ELSE IF Unopenable(i) THEN FailResult(i, OpenMessage)
    ELSE IF env[i] = "backend_error" THEN FailResult(i, BackendMessage)
    ELSE IF ~HasDirectory(i) THEN FailResult(i, MakedirsMessage)
    ELSE IF env[i] = "open_error" THEN FailResult(i, OutputMessage)
    ELSE IF env[i] = "write_error" THEN FailResult(i, WriteMessage)
    ELSE OkResult(i, PathFor(session_dir, Prefix, i))

\* the indices of the batch from 0 to n - 1 whose record is a success
ExpectedPaths(n) ==
    LET ok == {i \in 0..(n - 1) : ExpectedRecord(i).success}
    IN  [k \in 1..Cardinality(ok) |->
            LET i == CHOOSE j \in ok : Cardinality({l \in ok : l < j}) = k - 1
            IN  ExpectedRecord(i).output_path]

\* C29: the results list, output_paths and the success flag of the manifest
\* are determined by the inputs of the batch and the outcome met by each
\* index: every schedule and every completion order yield the same ones.
C29_ScheduleIndependent ==
    HasResults =>
        /\ manifest.results = [k \in 1..Len(tasks) |-> ExpectedRecord(k - 1)]
        /\ manifest.output_paths = ExpectedPaths(Len(tasks))
        /\ manifest.success = (\A i \in Indices : ExpectedRecord(i).success)

\* a batch whose second task completed first, one of the two failing, has
\* returned its manifest
C29_Witness ==
    /\ HasResults
    /\ arrival = <<1, 0>>
    /\ manifest.results[1].success # manifest.results[2].success

\* some image of the batch of the workflow failed
SomeImageFailed == HasResults /\ \E k \in 1..Len(manifest.results) : ~manifest.results[k].success

\* C25: the workflow's status is "complete" only if the manifest of the image
\* tool has success = true, every image having succeeded; when an image
\* failed, process_image_results returns status "error" with image_paths and
\* metadata as they were, and the run ends with status "error".
C25_CompleteOnlyIfAllSucceed ==
    /\ agent.status = "complete" => (HasResults /\ manifest.success /\ ~SomeImageFailed)
    /\ ("process_image_results" \in DOMAIN writes /\ SomeImageFailed) =>
        LET update == writes["process_image_results"]
        IN  /\ update.status = "error"
            /\ update.error = GenerateError
            /\ update.image_paths = agent.image_paths
            /\ update.metadata = agent.metadata
    /\ (agent_pc = "returned" /\ SomeImageFailed) =>
        /\ agent.status = "error"
        /\ agent.image_paths = <<>>
        /\ ~agent_ret.success

\* a run has ended with status "error" after one image of its batch failed
\* and another was written
C25_Witness ==
    /\ agent_pc = "returned"
    /\ agent.status = "error"
    /\ SomeImageFailed
    /\ \E path \in DOMAIN files :
           \E i \in 0..(Len(tasks) - 1) : /\ path = tasks[i + 1][4]
                                         /\ files[path] = ImageBytes(Prompt(i))

\* the workflow is running or has ended
Invoked == agent_pc # "idle"

\* the run has ended, with a result or with an exception
RunEnded == agent_pc \in {"returned", "raised"}

\* analyze_story returns a state with an error for the response
AnalysisFailed == Invoked /\ ExtractPrompts(response).raised

\* analyze_story returns an empty list of prompts and no error
NoPrompts ==
    /\ Invoked
    /\ ~ExtractPrompts(response).raised
    /\ ExtractPrompts(response).prompts = <<>>

\* C26 as stated: when analyze_story returns a state with an error, neither
\* generate_meme_images nor the tool node runs, no backend call is made and
\* the workflow ends with status "error".
C26_ErrorSkipsGeneration ==
    AnalysisFailed =>
        /\ "generate_meme_images" \notin visited
        /\ "image_tools" \notin visited
        /\ backendCalls = {}
        /\ RunEnded => (agent_pc = "returned" /\ agent.status = "error")

\* C27 as stated: when the analysis produced no prompt, no tool call is
\* issued, no backend call is made, and the workflow ends with status
\* "error" and the message that no meme prompts were generated.
C27_NoPromptsEndsInError ==
    NoPrompts =>
        /\ pc = "idle"
        /\ backendCalls = {}
        /\ RunEnded =>
            /\ agent_pc = "returned"
            /\ agent.status = "error"
            /\ agent.error = NoPromptsError

\* C28 as stated: when analyze_story reports no error, the list of prompts
\* it returns holds exactly nine prompts, for every response.
C28_NinePrompts ==
    ("analyze_story" \in DOMAIN writes /\ writes["analyze_story"].error = None) =>
        Len(writes["analyze_story"].meme_prompts) = NinePrompts

\* C30 as stated: at the end of every run the status is "complete" or
\* "error", and when the returned success is true the error is None and
\* there are as many image paths as meme prompts, at least one.
C30_FinalStatus ==
    RunEnded =>
        /\ agent.status \in {"complete", "error"}
        /\ agent_ret.success =>
            /\ agent_ret.error = None
            /\ Len(agent_ret.image_paths) = Len(agent_ret.meme_prompts)
            /\ Len(agent_ret.meme_prompts) >= 1

\* the step creates the file at path p or changes its contents
Touched(p) == p \notin DOMAIN files \/ files'[p] # files[p]

\* the step is the opening of the output file, or the write into it, of a
\* task whose backend call returned, and p is that task's output path
WriteOf(p) ==
    \E i \in Indices :
        /\ st[i] \in {"writing", "saving"}
        /\ st'[i] \in {"saving", "done"}
        /\ st'[i] # st[i]
        /\ env[i] \notin {"backend_error", "backend_exit"}
        /\ i \in backendCalls
        /\ tasks[i + 1][4] = p

\* C31: a task whose backend call fails creates or modifies nothing: every
\* step that creates a file or changes its contents is the opening or the
\* write of the output file of a task whose backend call returned, at that
\* task's own output path, so a file left by an earlier batch and the files of
\* the other tasks stay as they are; no directory is created by the failed
\* call either.
C31_FailedCallWritesNothing ==
    [][/\ DOMAIN files \subseteq DOMAIN files'
       /\ \A p \in DOMAIN files' : Touched(p) => WriteOf(p)
       /\ \A i \in Indices :
            (/\ st[i] = "calling"
             /\ env[i] \in {"backend_error", "backend_exit"}
             /\ st'[i] = "done") =>
                (files' = files /\ dirs' = dirs)]_vars

\* the backend call of a task of a second batch has failed while a file of
\* an earlier batch lies at the task's output path
C31_Witness ==
    /\ Len(calls) = 2
    /\ \E i \in Indices :
        /\ env[i] = "backend_error"
        /\ st[i] \in {"done", "collected"}
        /\ i \in backendCalls
        /\ tasks[i + 1][4] \in DOMAIN files
        /\ files[tasks[i + 1][4]] = ImageBytes(Prompt(i))

=============================================================================
